---- MODULE Spec2Model ----
(***************************************************************************)
(* Structured-response extraction and signal store of the trading-bot AI   *)
(* tools: PerplexityClient.getMarketSentiment, GeminiClient.analyzeSentiment*)
(* the client factories, the gateway calls (chat / generate, search) and   *)
(* the commands of the two CLIs with their save blocks, run one after the  *)
(* other (Spec) and saving to one file at the same time (SpecRace).        *)
(*                                                                         *)
(* Text is a sequence of lexical units ("characters" of the model): brace, *)
(* bracket, comma and colon characters, whitespace, prose characters, and  *)
(* whole JSON literals (a quoted string, a number, null/true/false).  A JS *)
(* string value is the sequence of its units, so that slicing, matching    *)
(* and parsing are computed on the text and not assumed.  String literals  *)
(* of the alphabet hold no brace characters; numbers are decimals within   *)
(* the range and precision of a double, named by their shortest form.      *)
(***************************************************************************)
EXTENDS Integers, Sequences, FiniteSets, TLC

VARIABLES
    env,      \* process.env: the API key of each client
    http,     \* the HTTP response the last request received
    err,      \* the message the last command printed with Error:
    symbol,   \* the symbol argument of the client call
    resp,     \* the gateway response envelope handed to the extractor
    backend,  \* "perplexity" | "gemini": which client extracts
    result,   \* what the extractor returned (or Pending)
    file,     \* the signal file: [exists, content]
    prev,     \* the signal file as the last command found it
    out,      \* outcome of the last command
    clock,    \* source of new Date().toISOString()
    procs,    \* invocations saving at the same time: where each is, what it loaded
    order,    \* the invocations in the order their writes completed
    torn      \* some step was taken while a file was open for writing

vars == <<env, http, err, symbol, resp, backend, result, file, prev, out, clock,
          procs, order, torn>>

(***************************************************************************)
(* Lexical units and JavaScript values share one shape, [t, s, q]: a tag,  *)
(* an atom and a sequence of parts, so that any two of them can be compared*)
(***************************************************************************)
Node(t, s, q) == [t |-> t, s |-> s, q |-> q]
Tok(t, s) == Node(t, s, <<>>)
LBrace   == Tok("p", "{")
RBrace   == Tok("p", "}")
LBracket == Tok("p", "[")
RBracket == Tok("p", "]")
Comma    == Tok("p", ",")
Colon    == Tok("p", ":")
WS       == Tok("ws", " ")
Eof      == Tok("eof", "")
W(s)     == Tok("x", s)           \* prose: a run of non-JSON characters
Fence    == Tok("x", "fence")     \* a markdown code fence (three backquotes)
Chars(s) == IF s = "" THEN <<>> ELSE <<W(s)>>
StrLit(chars) == Node("s", "", chars)  \* a quoted string literal
NumLit(s) == Tok("n", s)          \* a JSON number literal
NullLit  == Tok("l", "null")
TrueLit  == Tok("l", "true")
FalseLit == Tok("l", "false")
S(s)     == StrLit(Chars(s))

(***************************************************************************)
(* JavaScript values                                                       *)
(***************************************************************************)
Undefined == Node("undefined", "", <<>>)
JNull     == Node("null", "", <<>>)
JBool(b)  == Node("bool", IF b THEN "true" ELSE "false", <<>>)
JNum(s)   == Node("num", s, <<>>)  \* a number, named by its shortest decimal form
JStr(chars) == Node("str", "", chars)
JArr(elems) == Node("arr", "", elems)
Member(k, x) == Node("member", "", <<JStr(k), x>>)  \* one own property: key chars, value
JObj(members) == Node("obj", "", members)            \* members in insertion order
KeyOf(m) == m.q[1].q
ValOf(m) == m.q[2]
Str(s)    == JStr(Chars(s))

Min(a, b) == IF a < b THEN a ELSE b

\* a slice that does not truncate
SliceAll(chars, n) == chars

\* String.prototype.slice(0, n)
Slice(chars, n) == SubSeq(chars, 1, Min(n, Len(chars)))

\* JS truthiness: undefined, null, false, 0 and "" are falsy
Truthy(x) ==
    /\ x.t \notin {"undefined", "null"}
    /\ ~(x.t = "bool" /\ x.s = "false")
    /\ ~(x.t = "num" /\ x.s \in {"0", "-0"})
    /\ ~(x.t = "str" /\ x.q = <<>>)

\* a read with its default forgotten
OrNoDefault(a, b) == a

\* a string outside the documented values of an enum field gives the default
OrEnumChecked(a, b) ==
    IF /\ a.t = "str"
       /\ b \in {Str("neutral"), Str("hold"), Str("medium")}
       /\ a \notin {Str("bullish"), Str("bearish"), Str("neutral"), Str("buy"),
                    Str("sell"), Str("hold"), Str("low"), Str("medium"), Str("high")}
    THEN b
    ELSE IF Truthy(a) THEN a ELSE b

\* a || b
Or(a, b) == IF Truthy(a) THEN a ELSE b

\* own-property write: an existing key keeps its place and takes the new value
SetKey(members, k, x) ==
    IF \E i \in 1..Len(members) : KeyOf(members[i]) = k
    THEN [i \in 1..Len(members) |->
            IF KeyOf(members[i]) = k THEN Member(k, x) ELSE members[i]]
    ELSE Append(members, Member(k, x))

HasKey(o, k) == o.t = "obj" /\ \E i \in 1..Len(o.q) : KeyOf(o.q[i]) = k

\* o.k for a non-nullish o (each key is unique among the members)
Get(o, k) ==
    IF HasKey(o, k)
    THEN ValOf(o.q[CHOOSE i \in 1..Len(o.q) : KeyOf(o.q[i]) = k])
    ELSE Undefined

(***************************************************************************)
(* JSON.parse: recursive descent over the text                             *)
(***************************************************************************)
\* the number a literal denotes: 1.0 is 1, 0.50 and 5e-1 are 0.5
NumberOf(s) ==
    CASE s = "1.0"  -> "1"
      [] s = "0.50" -> "0.5"
      [] s = "5e-1" -> "0.5"
      [] OTHER      -> s

\* the digits JSON.stringify writes for a number: minus zero is written 0
NumberText(s) == IF s = "-0" THEN "0" ELSE s

At(toks, i) == IF i >= 1 /\ i <= Len(toks) THEN toks[i] ELSE Eof

RECURSIVE SkipWs(_, _)
SkipWs(toks, i) == IF At(toks, i) = WS THEN SkipWs(toks, i + 1) ELSE i

Fail == [ok |-> FALSE, v |-> Undefined, next |-> 0]
Ok(x, n) == [ok |-> TRUE, v |-> x, next |-> n]

RECURSIVE ParseValue(_, _)
RECURSIVE ParseElements(_, _, _)
RECURSIVE ParseMembers(_, _, _)

\* elements after "[" or ",": value then "," or "]"
ParseElements(toks, i, acc) ==
    LET r == ParseValue(toks, i) IN
    IF ~r.ok THEN Fail
    ELSE LET j == SkipWs(toks, r.next)
             a == Append(acc, r.v) IN
         IF At(toks, j) = Comma THEN ParseElements(toks, j + 1, a)
         ELSE IF At(toks, j) = RBracket THEN Ok(JArr(a), j + 1)
         ELSE Fail

\* members after "{" or ",": string ":" value then "," or "}"
ParseMembers(toks, i, acc) ==
    LET k == SkipWs(toks, i) IN
    IF At(toks, k).t # "s" THEN Fail
    ELSE LET c == SkipWs(toks, k + 1) IN
         IF At(toks, c) # Colon THEN Fail
         ELSE LET r == ParseValue(toks, c + 1) IN
              IF ~r.ok THEN Fail
              ELSE LET j == SkipWs(toks, r.next)
                       a == SetKey(acc, At(toks, k).q, r.v) IN
                   IF At(toks, j) = Comma THEN ParseMembers(toks, j + 1, a)
                   ELSE IF At(toks, j) = RBrace THEN Ok(JObj(a), j + 1)
                   ELSE Fail

ParseValue(toks, i0) ==
    LET i == SkipWs(toks, i0)
        c == At(toks, i) IN
    IF c.t = "l" THEN
        Ok(IF c = NullLit THEN JNull ELSE JBool(c = TrueLit), i + 1)
    ELSE IF c.t = "n" THEN Ok(JNum(NumberOf(c.s)), i + 1)
    ELSE IF c.t = "s" THEN Ok(JStr(c.q), i + 1)
    ELSE IF c = LBracket THEN
        IF At(toks, SkipWs(toks, i + 1)) = RBracket
        THEN Ok(JArr(<<>>), SkipWs(toks, i + 1) + 1)
        ELSE ParseElements(toks, i + 1, <<>>)
    ELSE IF c = LBrace THEN
        IF At(toks, SkipWs(toks, i + 1)) = RBrace
        THEN Ok(JObj(<<>>), SkipWs(toks, i + 1) + 1)
        ELSE ParseMembers(toks, i + 1, <<>>)
    ELSE Fail

\* the value read must be followed by whitespace only
WholeText(toks, r) ==
    IF r.ok /\ SkipWs(toks, r.next) = Len(toks) + 1 THEN r ELSE Fail

\* JSON.parse(text): ok = FALSE is a SyntaxError
JSONParse(toks) == WholeText(toks, ParseValue(toks, 1))

(***************************************************************************)
(* JSON.stringify(value, null, 2)                                          *)
(***************************************************************************)
RECURSIVE Join(_, _)
Join(parts, sep) ==
    IF Len(parts) = 0 THEN <<>>
    ELSE IF Len(parts) = 1 THEN parts[1]
    ELSE parts[1] \o sep \o Join(Tail(parts), sep)

RECURSIVE JSONStringify(_)
JSONStringify(x) ==
    IF x.t \in {"null", "undefined"} THEN <<NullLit>>
    ELSE IF x.t = "bool" THEN <<IF x.s = "true" THEN TrueLit ELSE FalseLit>>
    ELSE IF x.t = "num" THEN <<NumLit(NumberText(x.s))>>
    ELSE IF x.t = "str" THEN <<StrLit(x.q)>>
    ELSE IF x.t = "arr" THEN
        IF Len(x.q) = 0 THEN <<LBracket, RBracket>>
        ELSE <<LBracket, WS>>
             \o Join([i \in 1..Len(x.q) |-> JSONStringify(x.q[i])], <<Comma, WS>>)
             \o <<WS, RBracket>>
    ELSE
        LET kept == SelectSeq(x.q, LAMBDA m : ValOf(m).t # "undefined") IN
        IF Len(kept) = 0 THEN <<LBrace, RBrace>>
        ELSE <<LBrace, WS>>
             \o Join([i \in 1..Len(kept) |->
                        <<StrLit(KeyOf(kept[i])), Colon, WS>>
                        \o JSONStringify(ValOf(kept[i]))],
                     <<Comma, WS>>)
             \o <<WS, RBrace>>

(***************************************************************************)
(* The extractors                                                          *)
(***************************************************************************)
SummaryLimit == 200     \* content.slice(0, 200)
ReasoningLimit == 300   \* content.slice(0, 300)

Throw(name) == Node("throw", name, <<>>)

\* new Date().toISOString() at clock value n: a string that differs for each n
ISOString(n) == JStr([i \in 1..n |-> W("tick")])

\* response.choices[0]?.message.content, response.candidates[0]?.content.parts[0]?.text
FirstText(r) == IF Len(r.choices) = 0 THEN Undefined ELSE JStr(r.choices[1])

\* ... || '{}'
ContentOf(r) == Or(FirstText(r), JStr(<<LBrace, RBrace>>)).q

\* the lazy pattern: from the first "{" to the first "}" after it
MatchLazy(content) ==
    LET opens == {i \in 1..Len(content) : content[i] = LBrace} IN
    IF opens = {} THEN <<>>
    ELSE LET first == CHOOSE i \in opens : \A j \in opens : i <= j
             closes == {i \in first..Len(content) : content[i] = RBrace} IN
         IF closes = {} THEN <<>>
         ELSE SubSeq(content, first, CHOOSE i \in closes : \A j \in closes : i <= j)

\* content.match(/\{[\s\S]*\}/)?.[0]: from the first "{" to the last "}";
\* <<>> stands for no match
Match(content) ==
    LET opens  == {i \in 1..Len(content) : content[i] = LBrace}
        closes == {i \in 1..Len(content) : content[i] = RBrace} IN
    IF opens = {} \/ closes = {} THEN <<>>
    ELSE LET first == CHOOSE i \in opens : \A j \in opens : i <= j
             last  == CHOOSE i \in closes : \A j \in closes : j <= i IN
         IF first < last THEN SubSeq(content, first, last) ELSE <<>>

\* no match: an empty object is parsed instead of the text
OrEmptyObject(m, content) == IF m # <<>> THEN m ELSE <<LBrace, RBrace>>

\* m || content
OrContent(m, content) == IF m # <<>> THEN m ELSE content

\* the text parsed as it is, nothing stripped
CandidateWhole(content) == content

\* jsonMatch?.[0] || content
Candidate(content) == OrContent(Match(content), content)

\* what the try block has in parsed when it reads the properties: JSON.parse
\* throws a SyntaxError, reading a property of null throws a TypeError
ParsedOrThrow(p) ==
    IF ~p.ok THEN Throw("SyntaxError")
    ELSE IF p.v.t \in {"null", "undefined"} THEN Throw("TypeError")
    ELSE p.v

\* const parsed = JSON.parse(jsonMatch?.[0] || content), then the first read
TryParse(content) == ParsedOrThrow(JSONParse(Candidate(content)))

\* a catch that handles the SyntaxError of JSON.parse only
CaughtSyntaxErrorOnly(e) == e.s = "SyntaxError"

\* catch { ... }: a bare catch takes every exception
Caught(e) == TRUE

\* citations left out of the record
CitationsDropped(r) == JArr(<<>>)

\* response.citations || []
Citations(r) == Or(r.citations, JArr(<<>>))

\* the return statements of getMarketSentiment: the try block's record, or
\* the catch block's when parsed is an exception
MarketSentiment(sym, r, content, parsed) ==
    IF parsed.t = "throw" /\ ~Caught(parsed) THEN parsed
    ELSE IF parsed.t = "throw" THEN
        JObj(<< Member(Chars("symbol"), Str(sym)),
                Member(Chars("sentiment"), Str("neutral")),
                Member(Chars("confidence"), JNum("0.5")),
                Member(Chars("summary"), JStr(Slice(content, SummaryLimit))),
                Member(Chars("key_factors"), JArr(<<>>)),
                Member(Chars("citations"), Citations(r)) >>)
    ELSE
        JObj(<< Member(Chars("symbol"), Str(sym)),
                Member(Chars("sentiment"),
                       Or(Get(parsed, Chars("sentiment")), Str("neutral"))),
                Member(Chars("confidence"),
                       Or(Get(parsed, Chars("confidence")), JNum("0.5"))),
                Member(Chars("summary"), Or(Get(parsed, Chars("summary")), Str(""))),
                Member(Chars("key_factors"),
                       Or(Get(parsed, Chars("key_factors")), JArr(<<>>))),
                Member(Chars("citations"), Citations(r)) >>)

\* getMarketSentiment from const content on
MarketSentimentOf(sym, r, content) == MarketSentiment(sym, r, content, TryParse(content))

\* PerplexityClient.getMarketSentiment, from the response on
GetMarketSentiment(sym, r) == MarketSentimentOf(sym, r, ContentOf(r))

\* the return statements of analyzeSentiment; now is the clock
SentimentAnalysis(sym, content, parsed, now) ==
    IF parsed.t = "throw" /\ ~Caught(parsed) THEN parsed
    ELSE IF parsed.t = "throw" THEN
        JObj(<< Member(Chars("symbol"), Str(sym)),
                Member(Chars("sentiment"), Str("neutral")),
                Member(Chars("confidence"), JNum("0.5")),
                Member(Chars("reasoning"), JStr(Slice(content, ReasoningLimit))),
                Member(Chars("recommendation"), Str("hold")),
                Member(Chars("risk_level"), Str("medium")),
                Member(Chars("key_points"), JArr(<<>>)),
                Member(Chars("timestamp"), ISOString(now)) >>)
    ELSE
        JObj(<< Member(Chars("symbol"), Str(sym)),
                Member(Chars("sentiment"),
                       Or(Get(parsed, Chars("sentiment")), Str("neutral"))),
                Member(Chars("confidence"),
                       Or(Get(parsed, Chars("confidence")), JNum("0.5"))),
                Member(Chars("reasoning"), Or(Get(parsed, Chars("reasoning")), Str(""))),
                Member(Chars("recommendation"),
                       Or(Get(parsed, Chars("recommendation")), Str("hold"))),
                Member(Chars("risk_level"),
                       Or(Get(parsed, Chars("risk_level")), Str("medium"))),
                Member(Chars("key_points"),
                       Or(Get(parsed, Chars("key_points")), JArr(<<>>))),
                Member(Chars("timestamp"), ISOString(now)) >>)

\* analyzeSentiment from const content on
SentimentAnalysisOf(sym, content, now) ==
    SentimentAnalysis(sym, content, TryParse(content), now)

\* GeminiClient.analyzeSentiment, from the response on
AnalyzeSentiment(sym, r, now) == SentimentAnalysisOf(sym, ContentOf(r), now)

(***************************************************************************)
(* The clients and their gateways: createPerplexityClient / createGemini-  *)
(* Client, PerplexityClient.chat / GeminiClient.generate, and search       *)
(***************************************************************************)
\* new Error(message)
ThrowError(msg) == Node("throw", "Error", msg)

\* error.message: the text of an Error, the kind of the built-in ones
MessageOf(e) == IF e.q = <<>> THEN <<W(e.s)>> ELSE e.q

\* a call that returned r / that threw e
NoResponse == [choices |-> <<>>, citations |-> Undefined, model |-> Undefined,
               usage |-> Undefined]
Returned(r) == [threw |-> FALSE, error |-> Undefined, value |-> r]
Thrown(e) == [threw |-> TRUE, error |-> e, value |-> NoResponse]

RequiredMessage(b) ==
    IF b = "perplexity"
    THEN <<W("PERPLEXITY_API_KEY is required. Set it in .envrc or pass it directly.")>>
    ELSE <<W("GEMINI_API_KEY is required. Set it in .envrc or pass it directly.")>>

\* a client made although no key is there
CreateClientUnchecked(b, apiKey, e) == Returned(Or(apiKey, e[b]))

\* createPerplexityClient(apiKey) / createGeminiClient(apiKey): the key the
\* client holds, or the Error thrown when there is none
CreateClient(b, apiKey, e) ==
    IF ~Truthy(Or(apiKey, e[b])) THEN Thrown(ThrowError(RequiredMessage(b)))
    ELSE Returned(Or(apiKey, e[b]))

\* response.ok: the status is in 200..299
ResponseOk(h) == h.status.s \in {"200", "201", "204"}

ApiErrorPrefix(b) ==
    IF b = "perplexity" THEN W("Perplexity API error: ") ELSE W("Gemini API error: ")

\* a gateway that reads the body whatever the status
ChatUnchecked(b, h) == IF ~h.parses THEN Thrown(Throw("SyntaxError")) ELSE Returned(h.json)

\* PerplexityClient.chat / GeminiClient.generate once fetch has resolved to h:
\* throw on a status that is not ok, else response.json()
Chat(b, h) ==
    IF ~ResponseOk(h)
    THEN Thrown(ThrowError(<<ApiErrorPrefix(b), W(h.status.s), W(" - ")>> \o h.text))
    ELSE IF ~h.parses THEN Thrown(Throw("SyntaxError"))
    ELSE Returned(h.json)

\* response.choices[0]?.message.content || ''
AnswerOf(r) == Or(FirstText(r), Str(""))

\* response.usage.total_tokens: a TypeError when usage is undefined or null
TotalTokens(r) ==
    IF r.usage.t \in {"undefined", "null"} THEN Throw("TypeError")
    ELSE Get(r.usage, Chars("total_tokens"))

\* the object literal search returns, or the TypeError of reading usage
ResearchResult(query, r, tokens) ==
    IF tokens.t = "throw" THEN tokens
    ELSE JObj(<< Member(Chars("query"), Str(query)),
                 Member(Chars("answer"), AnswerOf(r)),
                 Member(Chars("citations"), Citations(r)),
                 Member(Chars("model"), r.model),
                 Member(Chars("tokens_used"), tokens) >>)

\* PerplexityClient.search, from the response on
Search(query, r) == ResearchResult(query, r, TotalTokens(r))

\* GeminiClient.chat, from the response on
GeminiChat(r) == AnswerOf(r)

(***************************************************************************)
(* Answer texts the upstream model can produce                             *)
(***************************************************************************)
Overshoot == 1       \* how far past a slice limit the long texts reach
MaxLen == 3          \* length of the exhaustively enumerated short texts
MaxCitations == 1    \* length of the gateway's citation list

Range(f) == {f[i] : i \in DOMAIN f}

PKeys == <<"sentiment", "confidence", "summary", "key_factors", "citations">>
GKeys == <<"sentiment", "confidence", "reasoning", "recommendation",
           "risk_level", "key_points", "citations">>
KeysOf(b) == IF b = "perplexity" THEN PKeys ELSE GKeys

\* a well-shaped value for each key, as JSON text
GoodValue(k) ==
    CASE k = "sentiment"      -> <<S("bullish")>>
      [] k = "confidence"     -> <<NumLit("0.8")>>
      [] k = "summary"        -> <<S("ETF inflows strong")>>
      [] k = "reasoning"      -> <<S("ETF inflows strong")>>
      [] k = "recommendation" -> <<S("buy")>>
      [] k = "risk_level"     -> <<S("low")>>
      [] k = "citations"      -> <<LBracket, S("https://model/"), RBracket>>
      [] OTHER -> <<LBracket, S("ETF inflows"), Comma, WS, S("Low volatility"), RBracket>>

\* other values a model may give for any key: off-enum, falsy, wrong-shaped
AltValues ==
    { <<S("very bullish")>>, <<S("bearish")>>, <<S("")>>, <<NumLit("0")>>,
      <<NumLit("1.0")>>, <<NumLit("1.5")>>, <<NullLit>>, <<FalseLit>>, <<TrueLit>>,
      <<LBracket, RBracket>>, <<LBrace, RBrace>> }

\* { "k1": v1, "k2": v2 } written compactly; members are <<key, value text>>
ObjText(members) ==
    <<LBrace>>
    \o Join([i \in 1..Len(members) |-> <<S(members[i][1]), Colon>> \o members[i][2]],
            <<Comma>>)
    \o <<RBrace>>

GoodMembers(keys) == [i \in 1..Len(keys) |-> <<keys[i], GoodValue(keys[i])>>]

\* every subset of the keys present, each with its good value
SubsetObjs(keys) ==
    { ObjText(GoodMembers(SelectSeq(keys, LAMBDA k : k \in K))) : K \in SUBSET Range(keys) }

\* one key alone, with any value
SingleObjs(keys) ==
    { ObjText(<< <<k, v>> >>) : k \in Range(keys), v \in AltValues }

\* every key present, one of them with another value
AlteredObjs(keys) ==
    { ObjText([i \in 1..Len(keys) |->
                 IF keys[i] = k THEN <<k, v>> ELSE <<keys[i], GoodValue(keys[i])>>])
        : k \in Range(keys), v \in AltValues }

ObjTexts(b) == SubsetObjs(KeysOf(b)) \cup SingleObjs(KeysOf(b)) \cup AlteredObjs(KeysOf(b))

SecondObj == ObjText(<< <<"sentiment", <<S("bearish")>> >>, <<"confidence", <<NumLit("0.3")>> >> >>)

\* how a model wraps its JSON: bare, in prose, in a fenced block, followed by a
\* second object, or next to prose that holds brace characters
Wrappings(o) ==
    { o,
      <<W("Here is the analysis:"), WS>> \o o \o <<WS, W("Hope this helps.")>>,
      <<Fence, W("json"), WS>> \o o \o <<WS, Fence>>,
      o \o SecondObj,
      o \o <<WS>> \o SecondObj,
      <<W("Schema"), LBrace, W("fields"), RBrace, WS>> \o o,
      o \o <<WS, W("end"), RBrace>> }

Prose(n) == [i \in 1..n |-> W("w")]

\* texts around the two slice limits, plain and between braces
LongTexts ==
    LET lens == (SummaryLimit - Overshoot .. SummaryLimit + Overshoot)
                \cup (ReasoningLimit - Overshoot .. ReasoningLimit + Overshoot) IN
    {Prose(n) : n \in lens} \cup {<<LBrace>> \o Prose(n) \o <<RBrace>> : n \in lens}

Sigma == {LBrace, RBrace, LBracket, RBracket, WS, W("w"), NullLit, NumLit("0"), S("a")}
ShortTexts == UNION {[1..n -> Sigma] : n \in 0..MaxLen}

OtherTexts ==
    { <<W("I think BTC looks okay.")>>,
      <<NumLit("5")>>, <<TrueLit>>, <<S("bullish")>>,
      <<LBracket, NumLit("1"), Comma, NumLit("2"), RBracket>>,
      <<LBracket>> \o SecondObj \o <<RBracket>>,
      <<LBrace, S("sentiment"), Colon, S("bullish"), Comma, RBrace>>,
      <<LBrace, S("sentiment"), S("bullish"), RBrace>>,
      <<LBrace, S("sentiment"), Colon, S("bullish")>>,
      <<LBrace, S("sentiment"), Colon, S("bullish"), Comma,
        S("sentiment"), Colon, S("bearish"), RBrace>> }

Texts(b) ==
    UNION {Wrappings(o) : o \in ObjTexts(b)} \cup LongTexts \cup ShortTexts \cup OtherTexts

Url(i) == JStr(<<W("https://source/")>> \o [j \in 1..i |-> W("a")])

\* response.citations: absent, or a list of URLs
CitationLists == {Undefined} \cup {JArr([i \in 1..n |-> Url(i)]) : n \in 0..MaxCitations}

\* response.usage of a complete envelope
Usage(n) == JObj(<< Member(Chars("prompt_tokens"), JNum("7")),
                    Member(Chars("completion_tokens"), JNum("35")),
                    Member(Chars("total_tokens"), JNum(n)) >>)

\* the envelopes handed to the extractors
Responses(b) ==
    [choices : {<<>>} \cup {<<t>> : t \in Texts(b)}, citations : CitationLists,
     model : {Str("sonar-pro")}, usage : {Usage("42")}]

Backends == {"perplexity", "gemini"}
Symbols == {"BTC"}

Pending == Node("pending", "", <<>>)
NoFile == [exists |-> FALSE, content |-> <<>>]

\* what a command left: exit status, error kind, the count of its Saved line,
\* the requests sent and the files written
Outcome(cmd, exit, error, count, requests, writes) ==
    [cmd |-> cmd, exit |-> exit, error |-> error, count |-> count,
     requests |-> requests, writes |-> writes]
Idle == Outcome("none", 0, "none", 0, 0, 0)

(***************************************************************************)
(* SpecExtract: the extractors applied to every response                   *)
(***************************************************************************)
\* process.env of a command: both keys set, but for the one the command varies
KeysSet == [perplexity |-> Str("key"), gemini |-> Str("key")]

\* no request sent yet
NoHttp == [status |-> JNum("0"), text |-> <<>>, parses |-> FALSE, json |-> NoResponse]

InitExtract ==
    /\ env = KeysSet
    /\ http = NoHttp
    /\ err = <<>>
    /\ backend \in Backends
    /\ symbol \in Symbols
    /\ resp \in Responses(backend)
    /\ result = Pending
    /\ file = NoFile
    /\ prev = NoFile
    /\ out = Idle
    /\ clock = 1
    /\ procs = <<>>
    /\ order = <<>>
    /\ torn = FALSE

PerplexityExtract ==
    /\ backend = "perplexity"
    /\ result = Pending
    /\ result' = GetMarketSentiment(symbol, resp)
    /\ UNCHANGED <<env, http, err, symbol, resp, backend, file, prev, out, clock,
                   procs, order, torn>>

GeminiExtract ==
    /\ backend = "gemini"
    /\ result = Pending
    /\ result' = AnalyzeSentiment(symbol, resp, clock)
    /\ UNCHANGED <<env, http, err, symbol, resp, backend, file, prev, out, clock,
                   procs, order, torn>>

NextExtract == PerplexityExtract \/ GeminiExtract

SpecExtract == InitExtract /\ [][NextExtract]_vars

(***************************************************************************)
(* The signal store: the save block of the Perplexity sentiment command    *)
(* and saveToFile of the Gemini CLI                                        *)
(***************************************************************************)
WriteOutcomes == {"ok", "open_failed", "write_failed", "write_partial"}

\* writeFileSync(path, text): the file is opened for writing, which creates or
\* empties it, and the text is then written into it.  It either completes, or
\* throws at the open (the file is untouched), or throws at a write (the file
\* is left empty or with the part written so far).
WriteFileSync(f, text, outcome) ==
    CASE outcome = "ok"            -> [exists |-> TRUE, content |-> text]
      [] outcome = "open_failed"   -> f
      [] outcome = "write_failed"  -> [exists |-> TRUE, content |-> <<>>]
      [] OTHER -> [exists |-> TRUE, content |-> SubSeq(text, 1, Len(text) \div 2)]

\* a value that is not an array is dropped instead of wrapped
AsArrayOrEmpty(x) == IF x.t = "arr" THEN x.q ELSE <<>>

\* if (!Array.isArray(signals)) signals = [signals]
AsArray(x) == IF x.t = "arr" THEN x.q ELSE <<x>>

\* signals after try { JSON.parse(existing); ... } catch { signals = [] }
ParsedSignals(p) == IF ~p.ok THEN <<>> ELSE AsArray(p.v)

\* a load that keeps nothing of the file
LoadNothing(f) == <<>>

\* gemini-cli saveToFile: signals once the file is loaded
LoadSignals(f) == IF ~f.exists THEN <<>> ELSE ParsedSignals(JSONParse(f.content))

\* a first signal written as a bare object instead of a one-element array
PushAndWriteBare(f, signals, outcome) ==
    [ file  |-> WriteFileSync(f, JSONStringify(IF Len(signals) = 1 THEN signals[1]
                                               ELSE JArr(signals)), outcome),
      threw |-> outcome # "ok",
      count |-> IF outcome = "ok" THEN Len(signals) ELSE 0 ]

\* the Saved line printed before the write is attempted
PushAndWriteLogFirst(f, signals, outcome) ==
    [ file  |-> WriteFileSync(f, JSONStringify(JArr(signals)), outcome),
      threw |-> outcome # "ok",
      count |-> Len(signals) ]

\* signals.push(data); writeFileSync(...); console.log(... signals.length ...):
\* the file left behind, whether the write threw, and the count printed
PushAndWrite(f, signals, outcome) ==
    [ file  |-> WriteFileSync(f, JSONStringify(JArr(signals)), outcome),
      threw |-> outcome # "ok",
      count |-> IF outcome = "ok" THEN Len(signals) ELSE 0 ]

\* gemini-cli saveToFile(filepath, data)
SaveToFile(f, data, outcome) == PushAndWrite(f, Append(LoadSignals(f), data), outcome)

\* the catch left out: whatever JSON.parse left behind is used
ParsedExistingNoCatch(p) == IF p.v.t # "arr" THEN <<p.v>> ELSE p.v.q

\* perplexity sentiment command: signals after the try/catch of the save block
ParsedExisting(p) ==
    IF ~p.ok THEN <<>>
    ELSE IF p.v.t # "arr" THEN <<p.v>> ELSE p.v.q

\* perplexity sentiment command: signals once the file is loaded
LoadExisting(f) == IF ~f.exists THEN <<>> ELSE ParsedExisting(JSONParse(f.content))

\* the length taken before the push
PushAndWriteStaleCount(f, signals, outcome) ==
    [ file  |-> WriteFileSync(f, JSONStringify(JArr(signals)), outcome),
      threw |-> outcome # "ok",
      count |-> IF outcome = "ok" THEN Len(signals) - 1 ELSE 0 ]

\* perplexity sentiment command: push, write and report
PushAndWriteBlock(f, signals, outcome) ==
    [ file  |-> WriteFileSync(f, JSONStringify(JArr(signals)), outcome),
      threw |-> outcome # "ok",
      count |-> IF outcome = "ok" THEN Len(signals) ELSE 0 ]

\* perplexity sentiment command, the save block
SaveBlock(f, data, outcome) ==
    PushAndWriteBlock(f, Append(LoadExisting(f), data), outcome)

(***************************************************************************)
(* The commands                                                            *)
(***************************************************************************)
MaxCommands == 2    \* commands run one after the other
MaxOld == 2         \* entries of the signal file found at the start

\* { ...result, timestamp: new Date().toISOString() }
WithTimestamp(rec, now) == JObj(SetKey(rec.q, Chars("timestamp"), ISOString(now)))

\* x.toUpperCase() throws a TypeError unless x is a string
UpperThrows(x) == x.t # "str"

\* list.length > 0 followed by list.forEach(...): throws for a non-array whose
\* length is positive
ForEachThrows(x) ==
    \/ x.t = "str"
    \/ x.t = "obj" /\ Get(x, Chars("length")).t = "num" /\ Truthy(Get(x, Chars("length")))

\* the display lines of the sentiment command
SentimentDisplayThrows(rec) ==
    \/ UpperThrows(Get(rec, Chars("sentiment")))
    \/ ForEachThrows(Get(rec, Chars("key_factors")))

\* the display lines of the analyze and research commands
AnalyzeDisplayThrows(rec) ==
    \/ UpperThrows(Get(rec, Chars("sentiment")))
    \/ UpperThrows(Get(rec, Chars("recommendation")))
    \/ UpperThrows(Get(rec, Chars("risk_level")))
    \/ ForEachThrows(Get(rec, Chars("key_points")))

\* answers a command can receive
CmdTexts ==
    { <<Fence, W("json"), WS>> \o ObjText(GoodMembers(PKeys)) \o <<WS, Fence>>,
      <<W("I think BTC looks okay.")>>,
      ObjText(<< <<"sentiment", <<NumLit("1")>> >> >>) }
CmdResponses ==
    [choices : {<<t>> : t \in CmdTexts}, citations : {Undefined},
     model : {Str("sonar-pro")}, usage : {Usage("42")}]

\* envelopes search can receive: with and without an answer, citations, a
\* model name and usage counters
FullResponse ==
    [choices |-> <<<<W("BTC is up 2% today.")>>>>, citations |-> JArr(<<Url(1)>>),
     model |-> Str("sonar"), usage |-> Usage("42")]
SearchResponses ==
    { FullResponse,
      [FullResponse EXCEPT !.choices = <<>>],
      [FullResponse EXCEPT !.citations = Undefined],
      [FullResponse EXCEPT !.model = Undefined],
      [FullResponse EXCEPT !.usage = Undefined],
      [FullResponse EXCEPT !.usage = JNull],
      [FullResponse EXCEPT !.usage = JObj(<<>>)],
      [FullResponse EXCEPT !.choices = <<>>, !.citations = Undefined] }

\* envelopes chat can receive: with and without a candidate
ChatResponses == {FullResponse, [FullResponse EXCEPT !.choices = <<>>]}

\* process.env.PERPLEXITY_API_KEY / GEMINI_API_KEY: unset, empty or set
KeyValues == {Undefined, JStr(<<>>), Str("key")}

\* what fetch resolves to: a status, the body as text, whether the body is
\* JSON, and the envelope it then holds
HttpOk(r) == [status |-> JNum("200"), text |-> <<>>, parses |-> TRUE, json |-> r]
HttpBody(status, text) ==
    [status |-> JNum(status), text |-> text, parses |-> FALSE, json |-> NoResponse]
HttpFailures ==
    { HttpBody("401", <<W("quota exceeded")>>), HttpBody("500", <<>>),
      HttpBody("200", <<W("<html>")>>) }
HttpResponses(rs) == HttpFailures \cup {HttpOk(r) : r \in rs}

OldSignal(i) ==
    JObj(<< Member(Chars("symbol"), Str("ETH")),
            Member(Chars("sentiment"), Str("bearish")),
            Member(Chars("timestamp"), JStr([j \in 1..i |-> W("old")])) >>)

\* the file states a command can find: absent, empty, not JSON, cut short, a
\* bare object, another JSON value, an array written by an earlier run
InitFiles ==
    {NoFile}
    \cup {[exists |-> TRUE, content |-> c] :
            c \in { <<>>, <<W("not json")>>,
                    <<LBracket, WS, LBrace, WS, S("symbol"), Colon>>,
                    JSONStringify(OldSignal(1)),
                    <<LBrace, S("symbol"), Colon, S("ETH"), Comma,
                      S("confidence"), Colon, NumLit("0.50"), RBrace, WS>>,
                    <<LBracket, LBrace, S("symbol"), Colon, S("ETH"), Comma,
                      S("confidence"), Colon, NumLit("5e-1"), RBrace, RBracket>>,
                    <<NullLit>>, <<NumLit("5")>>, <<S("note")>>, <<TrueLit>> }}
    \cup {[exists |-> TRUE, content |-> JSONStringify(JArr([i \in 1..n |-> OldSignal(i)]))] :
            n \in 0..MaxOld}

\* the <symbol> / <topic> argument of a command: a ticker, or '' (an empty
\* argument is accepted by the argument parser)
Subjects == {"BTC", ""}

\* the files the commands with an empty argument are run against
FilesOf(sym) ==
    IF sym = "" THEN {NoFile, [exists |-> TRUE, content |-> JSONStringify(JArr(<<OldSignal(1)>>))]}
    ELSE InitFiles

Init ==
    /\ env = KeysSet
    /\ http = NoHttp
    /\ err = <<>>
    /\ symbol \in Subjects
    /\ backend = "none"
    /\ resp = NoResponse
    /\ result = Pending
    /\ file \in FilesOf(symbol)
    /\ prev = file
    /\ out = Idle
    /\ clock = 1
    /\ procs = <<>>
    /\ order = <<>>
    /\ torn = FALSE

CanRun == clock <= MaxCommands

\* the output file opened for writing before the request is made
FailEarlyTouchesFile(cmd, b, k, h, error, e, requests) ==
    /\ env' = [KeysSet EXCEPT ![b] = k]
    /\ http' = h
    /\ err' = MessageOf(e)
    /\ backend' = b
    /\ resp' = NoResponse
    /\ result' = Pending
    /\ prev' = file
    /\ file' = [exists |-> TRUE, content |-> <<>>]
    /\ out' = Outcome(cmd, 1, error, 0, requests, 0)
    /\ clock' = clock + 1
    /\ UNCHANGED <<symbol, procs, order, torn>>

\* catch (error) { console.error("Error:", error.message); process.exit(1) }
\* for an error thrown before any response was returned: by the client
\* factory (no request sent), by fetch, or by the gateway
FailEarly(cmd, b, k, h, error, e, requests) ==
    /\ env' = [KeysSet EXCEPT ![b] = k]
    /\ http' = h
    /\ err' = MessageOf(e)
    /\ backend' = b
    /\ resp' = NoResponse
    /\ result' = Pending
    /\ prev' = file
    /\ file' = file
    /\ out' = Outcome(cmd, 1, error, 0, requests, 0)
    /\ clock' = clock + 1
    /\ UNCHANGED <<symbol, procs, order, torn>>

\* the rest of a command once the extractor returned rec: display, then save
\* with -o or print the JSON
Finish(cmd, b, k, h, rec, displayThrows, useOutput, saved) ==
    /\ env' = [KeysSet EXCEPT ![b] = k]
    /\ http' = h
    /\ backend' = b
    /\ resp' = h.json
    /\ result' = rec
    /\ prev' = file
    /\ clock' = clock + 1
    /\ UNCHANGED <<symbol, procs, order, torn>>
    /\ IF displayThrows
       THEN /\ file' = file
            /\ err' = MessageOf(Throw("TypeError"))
            /\ out' = Outcome(cmd, 1, "display", 0, 1, 0)
       ELSE IF ~useOutput
       THEN /\ file' = file
            /\ err' = <<>>
            /\ out' = Outcome(cmd, 0, "none", 0, 1, 0)
       ELSE /\ file' = saved.file
            /\ err' = IF saved.threw THEN MessageOf(ThrowError(<<W("ENOSPC: write")>>))
                      ELSE <<>>
            /\ out' = IF saved.threw
                      THEN Outcome(cmd, 1, "write", saved.count, 1, 1)
                      ELSE Outcome(cmd, 0, "none", saved.count, 1, 1)

\* a command that shows what the client returned and writes no file: exit 0,
\* or the catch when the client call threw after the response
Show(cmd, b, k, h, rec) ==
    /\ env' = [KeysSet EXCEPT ![b] = k]
    /\ http' = h
    /\ backend' = b
    /\ resp' = h.json
    /\ result' = rec
    /\ prev' = file
    /\ file' = file
    /\ clock' = clock + 1
    /\ UNCHANGED <<symbol, procs, order, torn>>
    /\ err' = IF rec.t = "throw" THEN MessageOf(rec) ELSE <<>>
    /\ out' = IF rec.t = "throw" THEN Outcome(cmd, 1, "result", 0, 1, 0)
              ELSE Outcome(cmd, 0, "none", 0, 1, 0)

\* the sentiment command from the extractor's record on
SentimentRun(k, h, rec, useOutput, w) ==
    Finish("sentiment", "perplexity", k, h, rec, SentimentDisplayThrows(rec), useOutput,
           SaveBlock(file, WithTimestamp(rec, clock), w))

\* the analyze and research commands from the extractor's record on
AnalyzeRun(cmd, k, h, rec, useOutput, w) ==
    Finish(cmd, "gemini", k, h, rec, AnalyzeDisplayThrows(rec), useOutput,
           SaveToFile(file, rec, w))

\* sentiment: await client.getMarketSentiment(...) once fetch resolved to h
SentimentAfterChat(k, h, c) ==
    IF c.threw THEN FailEarly("sentiment", "perplexity", k, h, "upstream", c.error, 1)
    ELSE \E useOutput \in BOOLEAN, w \in WriteOutcomes :
             SentimentRun(k, h, GetMarketSentiment(symbol, c.value), useOutput, w)

\* analyze / research: await client.analyzeSentiment(...) once fetch resolved
AnalyzeAfterGenerate(cmd, k, h, c) ==
    IF c.threw THEN FailEarly(cmd, "gemini", k, h, "upstream", c.error, 1)
    ELSE \E useOutput \in BOOLEAN, w \in WriteOutcomes :
             AnalyzeRun(cmd, k, h, AnalyzeSentiment(symbol, c.value, clock), useOutput, w)

\* search / news / crypto: await client.search(...) once fetch resolved to h
SearchAfterChat(cmd, k, h, c) ==
    IF c.threw THEN FailEarly(cmd, "perplexity", k, h, "upstream", c.error, 1)
    ELSE Show(cmd, "perplexity", k, h, Search("BTC news", c.value))

\* chat: await client.chat(prompt) once fetch resolved to h
ChatAfterGenerate(k, h, c) ==
    IF c.threw THEN FailEarly("chat", "gemini", k, h, "upstream", c.error, 1)
    ELSE Show("chat", "gemini", k, h, GeminiChat(c.value))

\* a rejected fetch issued once more before giving up
FetchFailedRetried(cmd, b, k) ==
    FailEarly(cmd, b, k, NoHttp, "transport", ThrowError(<<W("fetch failed")>>), 2)

\* fetch(...) rejects: no response at all
FetchFailed(cmd, b, k) ==
    FailEarly(cmd, b, k, NoHttp, "transport", ThrowError(<<W("fetch failed")>>), 1)

\* const client = create...Client() throws: the catch of the command
ConfigFailed(cmd, b, k, c) == FailEarly(cmd, b, k, NoHttp, "config", c.error, 0)

\* perplexity sentiment <symbol> [-o file]
SentimentWith(k, c) ==
    IF c.threw THEN ConfigFailed("sentiment", "perplexity", k, c)
    ELSE \/ FetchFailed("sentiment", "perplexity", k)
         \/ \E h \in HttpResponses(CmdResponses) :
                SentimentAfterChat(k, h, Chat("perplexity", h))

SentimentCmd ==
    /\ CanRun
    /\ \E k \in KeyValues : SentimentWith(k, CreateClient("perplexity", Undefined, [KeysSet EXCEPT !.perplexity = k]))

\* perplexity search <query> / news <topic> / crypto <symbol>
SearchWith(cmd, k, c) ==
    IF c.threw THEN ConfigFailed(cmd, "perplexity", k, c)
    ELSE \/ FetchFailed(cmd, "perplexity", k)
         \/ \E h \in HttpResponses(SearchResponses) :
                SearchAfterChat(cmd, k, h, Chat("perplexity", h))

SearchCmd ==
    /\ CanRun
    /\ \E cmd \in {"search", "news", "crypto"}, k \in KeyValues :
           SearchWith(cmd, k, CreateClient("perplexity", Undefined, [KeysSet EXCEPT !.perplexity = k]))

\* gemini analyze <symbol> [-o file]
AnalyzeWith(cmd, k, c) ==
    IF c.threw THEN ConfigFailed(cmd, "gemini", k, c)
    ELSE \/ FetchFailed(cmd, "gemini", k)
         \/ \E h \in HttpResponses(CmdResponses) :
                AnalyzeAfterGenerate(cmd, k, h, Chat("gemini", h))

AnalyzeCmd ==
    /\ CanRun
    /\ \E k \in KeyValues :
           AnalyzeWith("analyze", k, CreateClient("gemini", Undefined, [KeysSet EXCEPT !.gemini = k]))

\* gemini research <symbol> <research> [-o file]
ResearchCmd ==
    /\ CanRun
    /\ \E k \in KeyValues :
           AnalyzeWith("research", k, CreateClient("gemini", Undefined, [KeysSet EXCEPT !.gemini = k]))

\* gemini chat <prompt>
ChatWith(k, c) ==
    IF c.threw THEN ConfigFailed("chat", "gemini", k, c)
    ELSE \/ FetchFailed("chat", "gemini", k)
         \/ \E h \in HttpResponses(ChatResponses) :
                ChatAfterGenerate(k, h, Chat("gemini", h))

ChatCmd ==
    /\ CanRun
    /\ \E k \in KeyValues :
           ChatWith(k, CreateClient("gemini", Undefined, [KeysSet EXCEPT !.gemini = k]))

Next == SentimentCmd \/ SearchCmd \/ AnalyzeCmd \/ ResearchCmd \/ ChatCmd

Spec == Init /\ [][Next]_vars

(***************************************************************************)
(* SpecRace: several invocations saving to one file.  Each is its own      *)
(* process running the save code: the load (existsSync, readFileSync,      *)
(* JSON.parse), then push and writeFileSync.  Nothing locks the file, so   *)
(* the steps of different invocations interleave freely; writeFileSync     *)
(* either happens at once or as its two system calls, the open that        *)
(* empties the file and the write that fills it.                           *)
(***************************************************************************)
MaxProcs == 2    \* invocations that may run at the same time

Procs == 1..MaxProcs

\* odd invocations are perplexity sentiment -o, even ones gemini analyze -o
ImplOf(p) == IF p % 2 = 1 THEN "perplexity" ELSE "gemini"

\* the record invocation p saves
SignalOf(p) ==
    JObj(<< Member(Chars("symbol"), Str("BTC")),
            Member(Chars("sentiment"), Str("bullish")),
            Member(Chars("confidence"), JNum("0.8")),
            Member(Chars("timestamp"), ISOString(p)) >>)

NotStarted == [pc |-> "start", signals |-> <<>>, seen |-> 0]

InitRace ==
    /\ env = KeysSet
    /\ http = NoHttp
    /\ err = <<>>
    /\ symbol = "BTC"
    /\ backend = "none"
    /\ resp = NoResponse
    /\ result = Pending
    /\ file \in InitFiles
    /\ prev = file
    /\ out = Idle
    /\ clock = 1
    /\ procs = [p \in Procs |-> NotStarted]
    /\ order = <<>>
    /\ torn = FALSE

\* another invocation has the file open and emptied
OpenElsewhere(p) == \E q \in Procs \ {p} : procs[q].pc = "opened"

\* what the load of invocation p gives for file f
LoadedBy(p, f) == IF ImplOf(p) = "perplexity" THEN LoadExisting(f) ELSE LoadSignals(f)

\* the file read again at the time of the write, as under a lock
TextOfReloaded(p) == JSONStringify(JArr(Append(LoadedBy(p, file), SignalOf(p))))

\* the record put in front of the loaded entries
TextOfPrepended(p) == JSONStringify(JArr(<<SignalOf(p)>> \o procs[p].signals))

\* the text invocation p writes
TextOf(p) == JSONStringify(JArr(Append(procs[p].signals, SignalOf(p))))

RaceStep(p) ==
    /\ torn' = (torn \/ OpenElsewhere(p))
    /\ UNCHANGED <<env, http, err, symbol, resp, backend, result, prev, out, clock>>

\* if (existsSync(path)) { try { signals = JSON.parse(readFileSync(path)) ... } }
ReadSignals(p) ==
    /\ procs[p].pc = "start"
    /\ procs' = [procs EXCEPT ![p] = [pc |-> "loaded", signals |-> LoadedBy(p, file),
                                      seen |-> Len(order)]]
    /\ UNCHANGED <<file, order>>
    /\ RaceStep(p)

\* signals.push(data); writeFileSync(path, text) taken as one step
WriteSignals(p) ==
    /\ procs[p].pc = "loaded"
    /\ file' = WriteFileSync(file, TextOf(p), "ok")
    /\ procs' = [procs EXCEPT ![p].pc = "done"]
    /\ order' = Append(order, p)
    /\ RaceStep(p)

\* writeFileSync, first system call: open with truncation
OpenForWrite(p) ==
    /\ procs[p].pc = "loaded"
    /\ file' = WriteFileSync(file, TextOf(p), "write_failed")
    /\ procs' = [procs EXCEPT ![p].pc = "opened"]
    /\ UNCHANGED order
    /\ RaceStep(p)

\* text written at offset 0 of a file that holds old: what lies beyond the
\* text stays
Overlay(text, old) == text \o SubSeq(old, Len(text) + 1, Len(old))

\* writeFileSync, second system call: the text goes into the file from its
\* start, over whatever another invocation wrote since the open
WriteContent(p) ==
    /\ procs[p].pc = "opened"
    /\ file' = [exists |-> TRUE, content |-> Overlay(TextOf(p), file.content)]
    /\ procs' = [procs EXCEPT ![p].pc = "done"]
    /\ order' = Append(order, p)
    /\ RaceStep(p)

NextRace ==
    \E p \in Procs : ReadSignals(p) \/ WriteSignals(p) \/ OpenForWrite(p) \/ WriteContent(p)

SpecRace == InitRace /\ [][NextRace]_vars

(***************************************************************************)
(* Properties of the extractors (checked under SpecExtract)                *)
(***************************************************************************)
Field(k) == Get(result, Chars(k))
Extracted == result # Pending
RawText == IF Len(resp.choices) = 0 THEN <<>> ELSE resp.choices[1]
Parsed == JSONParse(Candidate(ContentOf(resp)))
FreeTextKey == IF backend = "perplexity" THEN "summary" ELSE "reasoning"
KeyListKey == IF backend = "perplexity" THEN "key_factors" ELSE "key_points"
LimitOf(b) == IF b = "perplexity" THEN SummaryLimit ELSE ReasoningLimit

RecordFields(b) ==
    IF b = "perplexity"
    THEN {"symbol", "sentiment", "confidence", "summary", "key_factors", "citations"}
    ELSE {"symbol", "sentiment", "confidence", "reasoning", "recommendation",
          "risk_level", "key_points", "timestamp"}

ExtractedKeys(b) ==
    IF b = "perplexity"
    THEN {"sentiment", "confidence", "summary", "key_factors"}
    ELSE {"sentiment", "confidence", "reasoning", "recommendation", "risk_level",
          "key_points"}

DefaultOf(k) ==
    CASE k = "sentiment"      -> Str("neutral")
      [] k = "confidence"     -> JNum("0.5")
      [] k = "recommendation" -> Str("hold")
      [] k = "risk_level"     -> Str("medium")
      [] k \in {"summary", "reasoning"} -> Str("")
      [] OTHER -> JArr(<<>>)

\* every field but the free text has its default
OnlyDefaults ==
    \A k \in ExtractedKeys(backend) \ {FreeTextKey} : Field(k) = DefaultOf(k)

C5_MissingFieldsDefault ==
    (Extracted /\ Parsed.ok /\ Parsed.v.t = "obj") =>
        \A k \in ExtractedKeys(backend) :
            /\ ~HasKey(Parsed.v, Chars(k)) => Field(k) = DefaultOf(k)
            /\ (HasKey(Parsed.v, Chars(k)) /\ Truthy(Get(Parsed.v, Chars(k))))
                  => Field(k) = Get(Parsed.v, Chars(k))

\* C5 witness: an object holding a sentiment and no confidence
C5_Witness ==
    /\ Extracted /\ Parsed.ok /\ Parsed.v.t = "obj"
    /\ ~HasKey(Parsed.v, Chars("confidence"))
    /\ HasKey(Parsed.v, Chars("sentiment"))
    /\ Field("confidence") = JNum("0.5")
    /\ Field("sentiment") = Str("bullish")

\* the text is one JSON object directly followed (but for whitespace) by another
TwoObjectsAt(t, i) ==
    LET a == JSONParse(SubSeq(t, 1, i))
        b == JSONParse(SubSeq(t, i + 1, Len(t))) IN
    a.ok /\ a.v.t = "obj" /\ b.ok /\ b.v.t = "obj"

TwoObjects(t) ==
    /\ Len(t) >= 4 /\ t[1] = LBrace /\ t[Len(t)] = RBrace
    /\ \E i \in 2..(Len(t) - 2) : t[i] = RBrace /\ TwoObjectsAt(t, i)

FirstObject(t) ==
    JSONParse(SubSeq(t, 1, CHOOSE i \in 2..(Len(t) - 2) : t[i] = RBrace /\ TwoObjectsAt(t, i))).v

\* C6 as stated: of two JSON objects one after the other, the first one's field
\* values are returned.
C6_FirstObjectWins ==
    (Extracted /\ TwoObjects(RawText)) =>
        \A k \in ExtractedKeys(backend) :
            HasKey(FirstObject(RawText), Chars(k))
                => Field(k) = Or(Get(FirstObject(RawText), Chars(k)), DefaultOf(k))

\* C6 amended: the span from the first "{" to the last "}" covers both objects,
\* it is not JSON, and the fallback record is returned: defaults, with the
\* truncated raw text as free text; neither object's values are returned.
C6_TwoObjectsFallBack ==
    (Extracted /\ TwoObjects(RawText)) =>
        /\ OnlyDefaults
        /\ Field(FreeTextKey) = JStr(SubSeq(RawText, 1, Min(Len(RawText), LimitOf(backend))))

\* C6 witness: a bullish object followed by a bearish one gives neutral
C6_Witness ==
    /\ Extracted /\ TwoObjects(RawText)
    /\ Get(FirstObject(RawText), Chars("sentiment")) = Str("bullish")
    /\ Field("sentiment") = Str("neutral")

\* C7: when JSON.parse of the candidate fails, the record holds defaults only,
\* but for the free text, which is the raw answer text cut to 200 (summary) or
\* 300 (reasoning) characters, a shorter text being kept whole.
C7_FallbackRecord ==
    (Extracted /\ ~Parsed.ok) =>
        /\ OnlyDefaults
        /\ Len(Field(FreeTextKey).q) <= LimitOf(backend)
        /\ Len(Field(FreeTextKey).q) = Min(Len(RawText), LimitOf(backend))
        /\ \A i \in 1..Len(Field(FreeTextKey).q) : Field(FreeTextKey).q[i] = RawText[i]

\* C7 witness: a text longer than the limit was cut
C7_Witness ==
    /\ Extracted /\ ~Parsed.ok
    /\ Len(RawText) > LimitOf(backend)
    /\ Len(Field(FreeTextKey).q) = LimitOf(backend)

\* the gateway's citation list, the empty list when it has none
GatewayCitations == IF resp.citations.t = "undefined" THEN JArr(<<>>) ELSE resp.citations

\* C8 as stated: the record of either backend carries the gateway's citations.
C8_CitationsBothBackends ==
    Extracted => (HasKey(result, Chars("citations")) /\ Field("citations") = GatewayCitations)

\* C8 amended: the Perplexity record carries the gateway's citation list (empty
\* when the response has none), never the 'citations' of the parsed JSON; the
\* Gemini record has no citations field at all.
C8_CitationsFromGateway ==
    Extracted =>
        /\ backend = "perplexity" =>
              (HasKey(result, Chars("citations")) /\ Field("citations") = GatewayCitations)
        /\ backend = "gemini" => ~HasKey(result, Chars("citations"))

\* C8 witness: the parsed JSON has its own citations and the gateway's are kept
C8_Witness ==
    /\ Extracted /\ backend = "perplexity"
    /\ Parsed.ok /\ HasKey(Parsed.v, Chars("citations"))
    /\ resp.citations = JArr(<<Url(1)>>)
    /\ Field("citations") = JArr(<<Url(1)>>)
    /\ Get(Parsed.v, Chars("citations")) # Field("citations")

(***************************************************************************)
(* Properties of the candidate span (checked under SpecExtract)            *)
(***************************************************************************)
Opens(t) == {i \in 1..Len(t) : t[i] = LBrace}
Closes(t) == {i \in 1..Len(t) : t[i] = RBrace}
FirstOpen(t) == CHOOSE i \in Opens(t) : \A j \in Opens(t) : i <= j
LastClose(t) == CHOOSE i \in Closes(t) : \A j \in Closes(t) : j <= i

\* the text has a "{" with a "}" somewhere after it
HasSpan(t) == Opens(t) # {} /\ Closes(t) # {} /\ FirstOpen(t) < LastClose(t)
Span(t) == SubSeq(t, FirstOpen(t), LastClose(t))

\* a prefix of the raw text as long as the limit allows
RawPrefix == JStr(SubSeq(RawText, 1, Min(Len(RawText), LimitOf(backend))))

\* the record the try block builds from object o
RecordOf(o) ==
    \A k \in ExtractedKeys(backend) :
        Field(k) = IF HasKey(o, Chars(k)) /\ Truthy(Get(o, Chars(k)))
                   THEN Get(o, Chars(k)) ELSE DefaultOf(k)

\* one JSON object with text around it that holds no brace
WrappedObject(t) ==
    /\ HasSpan(t)
    /\ FirstOpen(t) > 1 \/ LastClose(t) < Len(t)
    /\ JSONParse(Span(t)).ok
    /\ JSONParse(Span(t)).v.t = "obj"

C18_GreedySpanParsed ==
    (Extracted /\ HasSpan(RawText)) =>
        /\ Candidate(ContentOf(resp)) = Span(RawText)
        /\ Parsed.ok = JSONParse(Span(RawText)).ok
        /\ JSONParse(Span(RawText)).ok => RecordOf(JSONParse(Span(RawText)).v)
        /\ ~JSONParse(Span(RawText)).ok => (OnlyDefaults /\ Field(FreeTextKey) = RawPrefix)

C18_Witness ==
    /\ Extracted
    /\ Len(RawText) > 5
    /\ SubSeq(RawText, 1, 5) = <<W("Schema"), LBrace, W("fields"), RBrace, WS>>
    /\ JSONParse(SubSeq(RawText, 6, Len(RawText))).ok
    /\ HasKey(JSONParse(SubSeq(RawText, 6, Len(RawText))).v, Chars("sentiment"))
    /\ ~Parsed.ok
    /\ Field("sentiment") = Str("neutral")

\* C19 as stated: a text without a span gives the fallback record, the free
\* text being the truncated raw text, also when the text is valid JSON.
C19_NoSpanFallsBack ==
    (Extracted /\ ~HasSpan(RawText)) =>
        (OnlyDefaults /\ Field(FreeTextKey) = RawPrefix)

\* C19 amended: a text without a span is parsed whole; the record has only
\* defaults, and the free text is the truncated raw text when the text is not
\* JSON or is null, and the empty string when the text is valid JSON.
C19_NoSpanParsedWhole ==
    (Extracted /\ ~HasSpan(RawText)) =>
        /\ OnlyDefaults
        /\ Field(FreeTextKey) =
              IF JSONParse(RawText).ok /\ JSONParse(RawText).v.t # "null"
              THEN Str("") ELSE RawPrefix

C19_Witness ==
    /\ Extracted
    /\ RawText = <<LBracket, NumLit("1"), Comma, NumLit("2"), RBracket>>
    /\ OnlyDefaults
    /\ Field(FreeTextKey) = Str("")

\* C20: a numeric confidence of the parsed object is returned as given.
C20_ConfidenceAsGiven ==
    (Extracted /\ Parsed.ok /\ Parsed.v.t = "obj"
       /\ Get(Parsed.v, Chars("confidence")).t = "num")
        => Field("confidence") = Get(Parsed.v, Chars("confidence"))

\* the shape the record's type declares for each extracted field
ShapeOf(k) ==
    CASE k = "confidence" -> "num"
      [] k \in {"key_factors", "key_points"} -> "arr"
      [] OTHER -> "str"

EnumKeys(b) ==
    IF b = "perplexity" THEN {"sentiment"}
    ELSE {"sentiment", "recommendation", "risk_level"}

\* C21: a field of the parsed object that has the wrong shape is replaced by
\* the field's default in the record.
C21_WrongShapeDefaulted ==
    (Extracted /\ Parsed.ok /\ Parsed.v.t = "obj") =>
        \A k \in ExtractedKeys(backend) :
            (HasKey(Parsed.v, Chars(k)) /\ Get(Parsed.v, Chars(k)).t # ShapeOf(k))
                => Field(k) = DefaultOf(k)

\* C22 as stated: every string the parsed object holds for sentiment,
\* recommendation or risk_level is in the record unchanged.
C22_EveryStringPassed ==
    (Extracted /\ Parsed.ok /\ Parsed.v.t = "obj") =>
        \A k \in EnumKeys(backend) :
            Get(Parsed.v, Chars(k)).t = "str" => Field(k) = Get(Parsed.v, Chars(k))

\* C22 amended: every non-empty string the parsed object holds for sentiment,
\* recommendation or risk_level is in the record unchanged, a member of the
\* enum or not; the empty string is replaced by the field's default.
C22_NonEmptyStringPassed ==
    (Extracted /\ Parsed.ok /\ Parsed.v.t = "obj") =>
        \A k \in EnumKeys(backend) :
            Get(Parsed.v, Chars(k)).t = "str" =>
                Field(k) = IF Get(Parsed.v, Chars(k)).q = <<>> THEN DefaultOf(k)
                           ELSE Get(Parsed.v, Chars(k))

C22_Witness ==
    /\ Extracted
    /\ backend = "gemini"
    /\ Parsed.ok
    /\ Get(Parsed.v, Chars("risk_level")) = Str("very bullish")
    /\ Field("risk_level") = Str("very bullish")
    /\ Field("sentiment") = Str("bullish")

(***************************************************************************)
(* Properties of the signal store (checked under Spec)                     *)
(***************************************************************************)
\* the last command reached writeFileSync / the write went through
Wrote == out.writes = 1
Saved == Wrote /\ out.error = "none"

\* the signal the last command handed to the store
NewSignal == IF backend = "perplexity" THEN WithTimestamp(result, clock - 1) ELSE result

\* a file as a reader finds it
Readable(f) == f.exists /\ JSONParse(f.content).ok
TopLevel(f) == JSONParse(f.content).v
IsArrayFile(f) == Readable(f) /\ TopLevel(f).t = "arr"
Entries(f) == TopLevel(f).q

\* C2: a successful append to a file holding a JSON array of n entries leaves
\* n+1 entries: the n prior entries unchanged and in order, then the new record
C2_AppendKeepsEntries ==
    (Saved /\ IsArrayFile(prev)) =>
        /\ IsArrayFile(file)
        /\ Len(Entries(file)) = Len(Entries(prev)) + 1
        /\ SubSeq(Entries(file), 1, Len(Entries(prev))) = Entries(prev)
        /\ Entries(file)[Len(Entries(file))] = NewSignal
        /\ out.count = Len(Entries(prev)) + 1

C2_Witness ==
    /\ Saved
    /\ backend = "gemini"
    /\ IsArrayFile(prev)
    /\ Len(Entries(prev)) = 2
    /\ Len(Entries(file)) = 3

\* C3: an append to an existing file that is not JSON goes through and leaves
\* exactly one entry, the new record
C3_UnparseableStartsFresh ==
    (Wrote /\ prev.exists /\ ~Readable(prev)) =>
        /\ out.error \in {"none", "write"}
        /\ Saved => /\ IsArrayFile(file)
                    /\ Entries(file) = <<NewSignal>>
                    /\ out.exit = 0
                    /\ out.count = 1

C3_Witness ==
    /\ Saved
    /\ prev.exists
    /\ prev.content = <<W("not json")>>
    /\ Entries(file) = <<NewSignal>>

\* C4: an append to a file holding one JSON object leaves the two-element
\* array of that object and the new record
C4_BareObjectWrapped ==
    (Saved /\ Readable(prev) /\ TopLevel(prev).t = "obj") =>
        /\ IsArrayFile(file)
        /\ Entries(file) = <<TopLevel(prev), NewSignal>>

C4_Witness ==
    /\ Saved
    /\ Readable(prev)
    /\ TopLevel(prev).t = "obj"
    /\ Get(TopLevel(prev), Chars("confidence")) = JNum("0.5")
    /\ Len(Entries(file)) = 2

\* C9: after a successful write by either command the top-level value of the
\* file is an array, whatever the file held before
C9_FileIsArray == Saved => IsArrayFile(file)

C9_Witness ==
    /\ Saved
    /\ clock >= 3
    /\ IsArrayFile(prev)
    /\ HasKey(Entries(prev)[Len(Entries(prev))], Chars("confidence"))
    /\ IsArrayFile(file)
    /\ Len(Entries(file)) = Len(Entries(prev)) + 1

\* C10: when the write of the signal file fails the command ends in an error
\* and the file has its complete previous content
C10_FailedWriteKeepsFile ==
    (Wrote /\ out.error = "write") => (out.exit = 1 /\ file = prev)

\* C28: the save block of the sentiment command and saveToFile are
\* equivalent: for the file a command found and the record it saved, both
\* leave the same file and report the same count, which are the file and the
\* count the command left, whether the write went through or failed.
C28_StoresEquivalent ==
    Wrote =>
        /\ \A w \in WriteOutcomes :
               SaveBlock(prev, NewSignal, w) = SaveToFile(prev, NewSignal, w)
        /\ \E w \in WriteOutcomes :
               /\ SaveBlock(prev, NewSignal, w).file = file
               /\ SaveToFile(prev, NewSignal, w).file = file
               /\ SaveBlock(prev, NewSignal, w).count = out.count
               /\ SaveToFile(prev, NewSignal, w).count = out.count

C28_Witness ==
    /\ Saved
    /\ backend = "perplexity"
    /\ Readable(prev)
    /\ TopLevel(prev).t = "obj"
    /\ SaveToFile(prev, NewSignal, "ok").file = file
    /\ out.count = 2

\* C29: an append to a file holding a JSON value that is neither an array nor
\* an object (null, a number, a string, true) writes the two-element array of
\* that value and the new record and reports a count of 2.
C29_ScalarFileKept ==
    (Saved /\ Readable(prev) /\ TopLevel(prev).t \notin {"arr", "obj"}) =>
        /\ IsArrayFile(file)
        /\ Entries(file) = <<TopLevel(prev), NewSignal>>
        /\ out.count = 2

C29_Witness ==
    /\ Saved
    /\ prev.exists
    /\ prev.content = <<NullLit>>
    /\ Entries(file) = <<JNull, NewSignal>>
    /\ out.count = 2

(***************************************************************************)
(* Properties of concurrent and consecutive saves (checked under SpecRace) *)
(***************************************************************************)
Started == {p \in Procs : procs[p].pc # "start"}
AllDone == Started # {} /\ \A p \in Started : procs[p].pc = "done"
LastWriter == order[Len(order)]

\* every invocation loaded the file as it was at the start, before any write
AllReadFirst ==
    \A p \in Started : procs[p].seen = 0 /\ procs[p].signals = Entries(prev)

\* each invocation read the file after the write of the one before it
Sequential == \A i \in 1..Len(order) : procs[order[i]].seen = i - 1

RecordsOf(ps) == [i \in 1..Len(ps) |-> SignalOf(ps[i])]

\* C23: when two (or more) invocations all read the n-entry file before any
\* of them writes, all complete and the file ends with n+1 entries: the n
\* entries and the record of the last writer; the records of the others are
\* not in the file.
C23_LostUpdate ==
    (IsArrayFile(prev) /\ AllDone /\ Cardinality(Started) >= 2 /\ AllReadFirst) =>
        /\ IsArrayFile(file)
        /\ Entries(file) = Entries(prev) \o <<SignalOf(LastWriter)>>
        /\ \A p \in Started \ {LastWriter} :
               \A i \in 1..Len(Entries(file)) : Entries(file)[i] # SignalOf(p)

C23_Witness ==
    /\ IsArrayFile(prev)
    /\ Len(Entries(prev)) = 2
    /\ AllDone
    /\ AllReadFirst
    /\ order = <<2, 1>>
    /\ Len(Entries(file)) = 3
    /\ Entries(file)[3] = SignalOf(1)

\* C24: starting without a file, k saves run one after the other leave a
\* file of exactly k entries, the saved records in the order of the runs.
C24_SequentialAppendsKept ==
    (~prev.exists /\ AllDone /\ Sequential) =>
        /\ IsArrayFile(file)
        /\ Len(Entries(file)) = Cardinality(Started)
        /\ Entries(file) = RecordsOf(order)

C24_Witness ==
    /\ ~prev.exists
    /\ AllDone
    /\ Sequential
    /\ order = <<1, 2>>
    /\ Entries(file) = <<SignalOf(1), SignalOf(2)>>

\* C30: for a file holding an array of n entries and k >= 2 concurrent saves
\* whose reads and writes are atomic steps, every interleaving ends with an
\* array of n+1 to n+k entries: the n entries in their order, then records of
\* the invocations, the last one that of the invocation that wrote last.
C30_RaceOutcomes ==
    (IsArrayFile(prev) /\ AllDone /\ Cardinality(Started) >= 2 /\ ~torn) =>
        /\ IsArrayFile(file)
        /\ Len(Entries(file)) >= Len(Entries(prev)) + 1
        /\ Len(Entries(file)) <= Len(Entries(prev)) + Cardinality(Started)
        /\ SubSeq(Entries(file), 1, Len(Entries(prev))) = Entries(prev)
        /\ Entries(file)[Len(Entries(file))] = SignalOf(LastWriter)

C30_Witness ==
    /\ IsArrayFile(prev)
    /\ Len(Entries(prev)) = 1
    /\ AllDone
    /\ ~torn
    /\ order = <<2, 1>>
    /\ procs[1].seen = 1
    /\ Entries(file) = Entries(prev) \o <<SignalOf(2), SignalOf(1)>>

(***************************************************************************)
(* Properties of the commands and their gateways (checked under Spec)      *)
(***************************************************************************)
Ran == out.cmd # "none"
Answered == out.requests = 1 /\ http # NoHttp

\* the last request was answered with a status that is not ok
UpstreamFailed == Answered /\ ~ResponseOk(http)

\* the last request was answered with an envelope
GotEnvelope == Answered /\ ResponseOk(http) /\ http.parses

\* the "Saved to ... (N signals total)" line was printed
SavedLine == out.count > 0

\* C11: when the upstream status is not ok the gateway throws an error whose
\* message holds the status code and ends with the response body; no envelope
\* is returned and nothing is extracted.
C11_UpstreamErrorCarriesStatus ==
    UpstreamFailed =>
        /\ out.exit = 1
        /\ \E i \in 1..Len(err) : err[i] = W(http.status.s)
        /\ Len(err) >= Len(http.text)
        /\ SubSeq(err, Len(err) - Len(http.text) + 1, Len(err)) = http.text
        /\ resp = NoResponse
        /\ result = Pending

C11_Witness ==
    /\ UpstreamFailed
    /\ backend = "gemini"
    /\ http.status = JNum("401")
    /\ http.text = <<W("quota exceeded")>>
    /\ err = <<W("Gemini API error: "), W("401"), W(" - "), W("quota exceeded")>>

\* C12: a command run without an API key (unset or empty) fails at the client
\* factory and sends no request.
C12_NoKeyNoRequest ==
    (Ran /\ ~Truthy(env[backend])) =>
        /\ out.exit = 1
        /\ out.error = "config"
        /\ out.requests = 0
        /\ http = NoHttp
        /\ err = RequiredMessage(backend)

C12_Witness ==
    /\ out.cmd = "crypto"
    /\ env.perplexity = JStr(<<>>)
    /\ out.requests = 0
    /\ out.exit = 1

\* C13: every fatal error ends the command with an error message and exit
\* status 1, after at most one request and one write; the Saved line is not
\* printed.
C13_FatalErrorsExit ==
    (Ran /\ out.error # "none") =>
        /\ err # <<>>
        /\ out.exit = 1
        /\ out.requests <= 1
        /\ out.writes <= 1
        /\ ~SavedLine

C13_Witness ==
    /\ out.error = "write"
    /\ backend = "gemini"
    /\ out.exit = 1
    /\ err # <<>>
    /\ file # prev

\* C14: with an envelope received and a file that can be written, the
\* sentiment, analyze and research commands end without an error exit for every
\* answer text.
C14_DegradedNeverFails ==
    (out.cmd \in {"sentiment", "analyze", "research"} /\ GotEnvelope /\ out.error # "write")
        => out.exit = 0

\* C15: the count of the Saved line is the number of entries of the file as
\* written.
C15_CountIsFileLength ==
    Saved => (IsArrayFile(file) /\ out.count = Len(Entries(file)))

C15_Witness ==
    /\ Saved
    /\ backend = "perplexity"
    /\ IsArrayFile(prev)
    /\ Len(Entries(prev)) = 2
    /\ out.count = 3

\* C17: for every envelope search returns a record whose five fields are all
\* defined, the answer '' and the citations [] by default, and never throws.
C17_SearchRecordTotal ==
    (out.cmd \in {"search", "news", "crypto"} /\ GotEnvelope) =>
        /\ result.t = "obj"
        /\ \A k \in {"query", "answer", "citations", "model", "tokens_used"} :
              HasKey(result, Chars(k)) /\ Field(k).t # "undefined"
        /\ Len(resp.choices) = 0 => Field("answer") = Str("")
        /\ resp.citations = Undefined => Field("citations") = JArr(<<>>)

\* the last command ended in the catch before it had a record to show
FailedEarly == out.error \in {"config", "transport", "upstream"}

\* C25: a command writes the signal file only after its request was answered
\* with an envelope, the extractor returned a record and the record was
\* displayed; a command that fails with a credential, transport or upstream
\* error, or in its display, leaves the file as it found it.
C25_StoreComesLast ==
    Ran =>
        /\ Wrote => /\ GotEnvelope
                    /\ resp = http.json
                    /\ result.t = "obj"
                    /\ out.error \in {"none", "write"}
        /\ (FailedEarly \/ out.error = "display") =>
               /\ file = prev
               /\ out.writes = 0
               /\ out.exit = 1
        /\ FailedEarly => result = Pending

C25_Witness ==
    /\ out.cmd = "research"
    /\ out.error = "upstream"
    /\ prev.exists
    /\ IsArrayFile(prev)
    /\ Len(Entries(prev)) = 2
    /\ file = prev

\* C26: a command sends at most one request and does at most one
\* read-modify-write of the file: a request that fails is not sent again, and
\* a file that was written is one append away from the file found.
C26_OneRequestOneWrite ==
    Ran =>
        /\ out.requests \in {0, 1}
        /\ out.writes \in {0, 1}
        /\ out.error \in {"transport", "upstream"} => out.requests = 1
        /\ out.error = "config" <=> out.requests = 0
        /\ out.writes = 0 => file = prev
        /\ out.writes = 1 =>
               \E w \in WriteOutcomes : file = SaveToFile(prev, NewSignal, w).file

C26_Witness ==
    /\ out.cmd = "sentiment"
    /\ out.error = "transport"
    /\ out.requests = 1
    /\ out.exit = 1
    /\ http = NoHttp

\* C27: a command given an empty symbol or topic ends with an input-validation
\* error and sends no request.
C27_EmptySubjectRejected ==
    (out.cmd \in {"news", "crypto", "sentiment", "analyze", "research"}
       /\ symbol = "" /\ Truthy(env[backend]))
        => (out.exit = 1 /\ out.error = "validation" /\ out.requests = 0)

====
